---------------------------- MODULE Spec2Model ----------------------------
(***************************************************************************)
(* A model of UpFS (app.py): the MoneyPool ledger and its deposit and      *)
(* withdraw operations, the UpFuseOperations filesystem handlers, the path *)
(* regular expressions they match against, and the paged transaction scan  *)
(* of getattr.                                                             *)
(*                                                                         *)
(* Money is counted in integers; where a path encodes an amount the unit   *)
(* is the hundredth, so that dollars + cents / 100 is exact.  A ledger is  *)
(* the dict MoneyPool._accounts in insertion order: a sequence of          *)
(* [account, balance] records with distinct accounts.                      *)
(*                                                                         *)
(* Three specifications share the variables:                               *)
(*   Spec      sequential calls of MoneyPool.deposit / MoneyPool.withdraw  *)
(*   SpecFs    calls of the UpFuseOperations handlers                      *)
(*   SpecConc  MoneyPool.withdraw run by several threads, one step per     *)
(*             read or write of the shared dict                            *)
(***************************************************************************)
EXTENDS Integers, Sequences, FiniteSets, TLC

\* ------------------------------------------------------------- bounds
MaxAccounts == 2
MaxBalance == 5
MaxAmount == 9
MaxDeposit == 2
MaxCalls == 2

AccountNames == <<"A", "B", "C", "D">>

Max(a, b) == IF a >= b THEN a ELSE b
Min(a, b) == IF a <= b THEN a ELSE b

\* The ledgers a pool can hold: the first n account names in insertion
\* order, each with a non-negative balance.
RECURSIVE LedgersOfLen(_)
LedgersOfLen(n) ==
    IF n = 0 THEN {<<>>}
    ELSE {Append(l, [account |-> AccountNames[n], balance |-> b]) :
              l \in LedgersOfLen(n - 1), b \in 0..MaxBalance}

Ledgers == UNION {LedgersOfLen(n) : n \in 0..Min(MaxAccounts, Len(AccountNames))}

\* ---------------------------------------------------------- MoneyPool

\* MoneyPool.total: sum(self._accounts.values())
RECURSIVE total(_)
total(accts) ==
    IF accts = <<>> THEN 0
    ELSE accts[1].balance + total(Tail(accts))

\* sum of the amounts of a withdraw result
RECURSIVE SumWithdrawn(_)
SumWithdrawn(w) ==
    IF w = <<>> THEN 0
    ELSE w[1].amount + SumWithdrawn(Tail(w))

\* `account in self._accounts`
HasAccount(accts, account) == \E i \in 1..Len(accts) : accts[i].account = account

IndexOf(accts, account) == CHOOSE i \in 1..Len(accts) : accts[i].account = account

\* withdraw, line 340: `if self.total() < amount: return withdrawn_amounts`
InsufficientFunds_NoCheck(accts, amount) == FALSE
InsufficientFunds(accts, amount) == total(accts) < amount

\* withdraw, line 345: `if amount == 0: break`
StopGuzzling_Never(amount) == FALSE
StopGuzzling(amount) == amount = 0

\* withdraw, line 349: self._accounts[account] = max(balance - amount, 0)
NewBalance(balance, amount) == Max(balance - amount, 0)

\* withdraw, line 350:
\*   withdrawn_amounts[account] = max(min(0, balance - (balance - amount)), balance)
Reported(balance, amount) == Max(Min(0, balance - (balance - amount)), balance)

\* withdraw, line 353: amount = amount - (balance - amount)
Remaining(balance, amount) == amount - (balance - amount)

\* withdraw, lines 343-353: the loop over self._accounts.items() from entry i
\* on, with the request left in amount and the result built so far in w.
RECURSIVE WithdrawLoop(_, _, _, _)
WithdrawLoop(accts, i, amount, w) ==
    IF i > Len(accts) \/ StopGuzzling(amount)
    THEN [accounts |-> accts, withdrawn |-> w, amount |-> amount]
    ELSE LET balance == accts[i].balance
         IN  WithdrawLoop(
                 [accts EXCEPT ![i].balance = NewBalance(balance, amount)],
                 i + 1,
                 Remaining(balance, amount),
                 Append(w, [account |-> accts[i].account,
                            amount |-> Reported(balance, amount)]))

\* MoneyPool.withdraw: the ledger afterwards and the dict returned (in
\* insertion order).  A request above the total returns the empty dict.
withdraw(accts, amount) ==
    IF InsufficientFunds(accts, amount)
    THEN [accounts |-> accts, withdrawn |-> <<>>, amount |-> amount]
    ELSE WithdrawLoop(accts, 1, amount, <<>>)

\* MoneyPool.deposit: self._accounts[account] raises KeyError for an account
\* with no entry; a zero balance is replaced, any other is added to.
deposit(accts, account, amount) ==
    IF ~HasAccount(accts, account)
    THEN [accounts |-> accts, raised |-> "KeyError"]
    ELSE LET i == IndexOf(accts, account)
         IN  [accounts |-> [accts EXCEPT ![i].balance =
                                IF accts[i].balance = 0 THEN amount
                                ELSE accts[i].balance + amount],
              raised |-> "none"]

\* ------------------------------------------------------------- paths
\* A path is a sequence of one-character strings.  Python's None is the
\* one-element sequence None, which no string of characters equals.
None == <<"None">>
Slash == <<"/">>
Digits == {"0", "1", "2", "3", "4", "5", "6", "7", "8", "9"}

W_balance == <<"b", "a", "l", "a", "n", "c", "e">>
W_unallocated == <<"u", "n", "a", "l", "l", "o", "c", "a", "t", "e", "d">>
W_transactions == <<"t", "r", "a", "n", "s", "a", "c", "t", "i", "o", "n", "s">>
W_amount == <<"a", "m", "o", "u", "n", "t">>
W_category == <<"c", "a", "t", "e", "g", "o", "r", "y">>
W_description == <<"d", "e", "s", "c", "r", "i", "p", "t", "i", "o", "n">>
W_message == <<"m", "e", "s", "s", "a", "g", "e">>
W_settled == <<"s", "e", "t", "t", "l", "e", "d">>
W_status == <<"s", "t", "a", "t", "u", "s">>
W_tags == <<"t", "a", "g", "s">>

\* the alternatives of group 7 of PathRegexes.transactions
DetailFields == {W_amount, W_category, W_description, W_message, W_settled, W_status}

\* the pieces of s between its "/" characters: Split("/a/b/") is <<"", "a", "b", "">>
RECURSIVE SplitFrom(_, _, _)
SplitFrom(s, i, cur) ==
    IF i > Len(s) THEN <<cur>>
    ELSE IF s[i] = "/" THEN <<cur>> \o SplitFrom(s, i + 1, <<>>)
    ELSE SplitFrom(s, i + 1, Append(cur, s[i]))

Split(s) == SplitFrom(s, 1, <<>>)

AllDigits(s) == \A i \in 1..Len(s) : s[i] \in Digits

DigitValue(c) ==
    CASE c = "0" -> 0 [] c = "1" -> 1 [] c = "2" -> 2 [] c = "3" -> 3 [] c = "4" -> 4
      [] c = "5" -> 5 [] c = "6" -> 6 [] c = "7" -> 7 [] c = "8" -> 8 [] c = "9" -> 9

\* float(s) of a string of digits
RECURSIVE ParseDigits(_)
ParseDigits(s) ==
    IF s = <<>> THEN 0
    ELSE 10 * ParseDigits(SubSeq(s, 1, Len(s) - 1)) + DigitValue(s[Len(s)])

\* the length of the longest prefix of digits of s
RECURSIVE DigitPrefixLen(_)
DigitPrefixLen(s) ==
    IF s = <<>> \/ s[1] \notin Digits THEN 0
    ELSE 1 + DigitPrefixLen(Tail(s))

\* (?:\$?(\d+)\.?(\d{0,2}))?$ against the rest of the path: groups 4 and 5.
\* The empty rest matches with neither group taking part; otherwise an
\* optional "$", one or more digits (greedy) and then either the end, or a
\* "." and at most two digits.
MatchAmount(s) ==
    IF s = <<>> THEN [ok |-> TRUE, g4 |-> None, g5 |-> None]
    ELSE LET r == IF s[1] = "$" THEN Tail(s) ELSE s
             n == DigitPrefixLen(r)
             after == SubSeq(r, n + 1, Len(r))
             cents == IF after # <<>> /\ after[1] = "." THEN Tail(after) ELSE after
         IN  IF n >= 1 /\ AllDigits(cents) /\ Len(cents) <= 2
                  /\ (after = <<>> \/ after[1] = ".")
             THEN [ok |-> TRUE, g4 |-> SubSeq(r, 1, n), g5 |-> cents]
             ELSE [ok |-> FALSE, g4 |-> None, g5 |-> None]

NoBalanceMatch == [ok |-> FALSE, g1 |-> None, g3 |-> None, g4 |-> None, g5 |-> None]

\* PathRegexes.balance, line 14:
\*   ^/(?:([^/]+)/(balance)|(unallocated))/(?:\$?(\d+)\.?(\d{0,2}))?$
\* No part of the amount can hold a "/", so the path splits at its slashes
\* into "", account, "balance", amount or into "", "unallocated", amount.
MatchBalance(path) ==
    LET segs == Split(path)
    IN  IF Len(segs) = 4 /\ segs[1] = <<>> /\ segs[2] # <<>> /\ segs[3] = W_balance
             /\ MatchAmount(segs[4]).ok
        THEN [ok |-> TRUE, g1 |-> segs[2], g3 |-> None,
              g4 |-> MatchAmount(segs[4]).g4, g5 |-> MatchAmount(segs[4]).g5]
        ELSE IF Len(segs) = 3 /\ segs[1] = <<>> /\ segs[2] = W_unallocated
                  /\ MatchAmount(segs[3]).ok
        THEN [ok |-> TRUE, g1 |-> None, g3 |-> W_unallocated,
              g4 |-> MatchAmount(segs[3]).g4, g5 |-> MatchAmount(segs[3]).g5]
        ELSE NoBalanceMatch

W_spending == <<"s", "p", "e", "n", "d", "i", "n", "g">>
W_saver == <<"s", "a", "v", "e", "r">>

\* PathRegexes.account, line 12: ^/([^/]+)/ which re.match finds at the start
\* of the path, whatever follows the second slash.
MatchAccount(path) ==
    LET segs == Split(path)
    IN  IF Len(segs) >= 3 /\ segs[1] = <<>> /\ segs[2] # <<>>
        THEN [ok |-> TRUE, g1 |-> segs[2]]
        ELSE [ok |-> FALSE, g1 |-> None]

\* PathRegexes.account_type, line 13: ^/([^/]+)/(spending|saver)$
MatchAccountType(path) ==
    LET segs == Split(path)
    IN  IF Len(segs) = 3 /\ segs[1] = <<>> /\ segs[2] # <<>>
             /\ segs[3] \in {W_spending, W_saver}
        THEN [ok |-> TRUE, g1 |-> segs[2], g2 |-> segs[3]]
        ELSE [ok |-> FALSE, g1 |-> None, g2 |-> None]

IsYear(s) == Len(s) = 4 /\ AllDigits(s)
IsTwoDigits(s) == Len(s) = 2 /\ AllDigits(s)

\* PathRegexes.transactions, line 15:
\*   ^/([^/]+)/(?:(transactions)/(?:(\d{4})/(?:(\d{2})/(?:(\d{2})/(?:([^/]+)/
\*     (?:(amount|category|description|message|settled|status)|(tags)/([^/]+)?)?)?)?)?)?)$
\* Every level ends in a "/", and each nested group is optional: split at
\* the slashes the path is "", account, "transactions", then as many of
\* year, month, day, payee as are given, then "" (the last slash), a detail
\* field, or "tags" and a tag that may be empty.
MatchTransactions(path) ==
    LET segs == Split(path)
        n == Len(segs)
        seg(i) == IF i <= n THEN segs[i] ELSE None
        head == n >= 4 /\ segs[1] = <<>> /\ segs[2] # <<>> /\ segs[3] = W_transactions
        ok == head /\
              \/ n = 4 /\ segs[4] = <<>>
              \/ n = 5 /\ IsYear(segs[4]) /\ segs[5] = <<>>
              \/ n = 6 /\ IsYear(segs[4]) /\ IsTwoDigits(segs[5]) /\ segs[6] = <<>>
              \/ n = 7 /\ IsYear(segs[4]) /\ IsTwoDigits(segs[5]) /\ IsTwoDigits(segs[6])
                       /\ segs[7] = <<>>
              \/ n = 8 /\ IsYear(segs[4]) /\ IsTwoDigits(segs[5]) /\ IsTwoDigits(segs[6])
                       /\ segs[7] # <<>> /\ (segs[8] = <<>> \/ segs[8] \in DetailFields)
              \/ n = 9 /\ IsYear(segs[4]) /\ IsTwoDigits(segs[5]) /\ IsTwoDigits(segs[6])
                       /\ segs[7] # <<>> /\ segs[8] = W_tags
    IN  IF ok
        THEN [ok |-> TRUE, account |-> segs[2],
              year |-> IF n >= 5 THEN segs[4] ELSE None,
              month |-> IF n >= 6 THEN segs[5] ELSE None,
              day |-> IF n >= 7 THEN segs[6] ELSE None,
              payee |-> IF n >= 8 THEN segs[7] ELSE None,
              field |-> IF n = 8 /\ segs[8] # <<>> THEN segs[8] ELSE None,
              tags |-> IF n = 9 THEN W_tags ELSE None,
              tag |-> IF n = 9 /\ segs[9] # <<>> THEN segs[9] ELSE None]
        ELSE [ok |-> FALSE, account |-> None, year |-> None, month |-> None,
              day |-> None, payee |-> None, field |-> None, tags |-> None, tag |-> None]

\* ------------------------------------------------- the remote collaborator
\* The bank as the upbankapi client shows it: the balance of the account and
\* its transaction history, a sequence of pages, each a non-empty sequence
\* of transaction ids.  account.transactions() fetches page 1 and
\* page.next() the page after, or gives None after the last page.
MaxPages == 3

TxIds == {<<"x">>, <<"y">>}

RECURSIVE HistoriesOfLen(_)
HistoriesOfLen(n) ==
    IF n = 0 THEN {<<>>}
    ELSE {Append(h, <<id>>) : h \in HistoriesOfLen(n - 1), id \in TxIds}

Histories == UNION {HistoriesOfLen(n) : n \in 1..MaxPages}

Banks == [balance : {0, 5}, pages : Histories]

NoBank == [balance |-> 0, pages |-> <<>>]

\* What fails in a call: the fetch of the account, and the fetch of page
\* number `page` of the history (0: no page fetch fails).
Failures == [account : BOOLEAN, page : 0..MaxPages]

NoFailure == [account |-> FALSE, page |-> 0]

\* ------------------------------------------------------ UpFuseOperations

\* lines 125-129, 184-188 and 207-211: `except UpBankException: raise FuseOSError(EIO)`
AccountFetchFailed == "EIO"

\* lines 222-225: `except UpBankException: raise FuseOSError(EIO)` around page.next()
PageFetchFailed_Swallowed == "ENOENT"
PageFetchFailed == "EIO"

\* lines 229-236: `return dict(..., st_ctime=, st_mtime=time(), ...)`.  The
\* statement gives st_ctime no value and `time` is never imported: it yields no
\* metadata, and is modelled as the error its evaluation raises.
StatReply == "NameError"

\* _total_unallocated, lines 30-31: sum(self.moneypool.total()).  total()
\* is a number, and sum() of a number raises TypeError.
_total_unallocated(accts) == [raised |-> "TypeError", value |-> total(accts)]

chmod(path) == "EROFS"
chown(path) == "EROFS"
link(path) == "EROFS"
mkdir(path) == "EROFS"
mknod(path) == "EROFS"
readlink(path) == "ENOENT"
removexattr(path) == "ENOTSUP"
rename(path) == "EROFS"
rmdir(path) == "EROFS"
setxattr(path) == "ENOTSUP"
symlink(path) == "EROFS"
truncate(path) == "EROFS"
unlink(path) == "EROFS"
write(path) == "EROFS"
\* create, lines 89-97: raises EROFS for every path; it never calls parse_path
create(path) == "EROFS"
\* utimens, lines 293-296: return 0
utimens(path) == "0"

\* parse_path, lines 99-142.  Money is in hundredths, so that
\* dollars + (cents / 100) is 100 * dollars + cents.
parse_path(path, accts, fail) ==
    LET match == MatchBalance(path)
        dollars == IF match.g4 # None /\ match.g4 # <<>> THEN ParseDigits(match.g4) ELSE 0
        cents == IF match.g5 # None /\ match.g5 # <<>> THEN ParseDigits(match.g5) ELSE 0
        amount == 100 * dollars + cents
        unallocated == _total_unallocated(accts)
    IN  IF ~match.ok THEN [reply |-> "False", accounts |-> accts]
        ELSE IF match.g3 # None THEN [reply |-> "EROFS", accounts |-> accts]
        ELSE IF dollars = 0 /\ cents = 0 THEN [reply |-> "EROFS", accounts |-> accts]
        ELSE IF fail.account THEN [reply |-> AccountFetchFailed, accounts |-> accts]
        ELSE IF unallocated.raised # "none"
             THEN [reply |-> unallocated.raised, accounts |-> accts]
        ELSE IF amount > unallocated.value THEN [reply |-> "ENOTSUP", accounts |-> accts]
        ELSE [reply |-> "0", accounts |-> withdraw(accts, amount).accounts]

\* _parse_dollars_cents, lines 144-160, in hundredths; <<>> stands for None
\* and <<n>> for the number n.
_parse_dollars_cents(dollars, cents) ==
    IF (dollars = None \/ dollars = <<>>) /\ (cents = None \/ cents = <<>>)
    THEN <<>>
    ELSE <<100 * (IF dollars # None /\ dollars # <<>> THEN ParseDigits(dollars) ELSE 0)
           + (IF cents # None /\ cents # <<>> THEN ParseDigits(cents) ELSE 0)>>

\* getattr, line 193: `if self._parse_dollars_cents(...) != balance`
BalanceMismatch_Never(parsed, balance) == FALSE
BalanceMismatch(parsed, balance) == parsed # <<balance>>

\* getattr, lines 216-219: the first transaction of the page whose id is
\* transaction_str, None when the page holds none.
FindInPage(page, transaction_str) ==
    IF \E j \in 1..Len(page) : page[j] = transaction_str
    THEN page[CHOOSE j \in 1..Len(page) :
                 /\ page[j] = transaction_str
                 /\ \A k \in 1..(j - 1) : page[k] # transaction_str]
    ELSE None

\* getattr, lines 213-225: `while page and not transaction`, with page k of
\* the history in hand (k beyond the last page: page is None).  Each turn
\* searches the page and then calls page.next(), match or no match.
RECURSIVE ScanPages(_, _, _, _, _, _)
ScanPages(pages, k, transaction, transaction_str, fail, fetched) ==
    IF k > Len(pages) \/ transaction # None
    THEN [raised |-> FALSE, transaction |-> transaction, fetched |-> fetched]
    ELSE LET found == FindInPage(pages[k], transaction_str)
         IN  IF k < Len(pages)
             THEN IF fail.page = k + 1
                  THEN [raised |-> TRUE, transaction |-> found, fetched |-> fetched + 1]
                  ELSE ScanPages(pages, k + 1, found, transaction_str, fail, fetched + 1)
             ELSE ScanPages(pages, k + 1, found, transaction_str, fail, fetched)

\* getattr, lines 162-236: the reply, the number of transaction pages it
\* asked the bank for, and the transaction its scan found (None when it
\* found none or did not scan).
getattr(path, accts, bank, fail) ==
    LET match == MatchBalance(path)
        tmatch == MatchTransactions(path)
        balance == IF match.g1 # None THEN bank.balance ELSE total(accts)
        \* line 204: transaction_str = None
        transaction_str == None
        scan == ScanPages(bank.pages, 1, None, transaction_str, fail, 1)
    IN  IF match.ok
        THEN IF match.g1 # None /\ fail.account
             THEN [reply |-> AccountFetchFailed, fetched |-> 0, transaction |-> None]
             ELSE IF BalanceMismatch(_parse_dollars_cents(match.g4, match.g5), balance)
             THEN [reply |-> "ENOENT", fetched |-> 0, transaction |-> None]
             ELSE [reply |-> "0", fetched |-> 0, transaction |-> None]
        ELSE IF tmatch.ok
        THEN IF fail.account THEN [reply |-> AccountFetchFailed, fetched |-> 0, transaction |-> None]
             ELSE IF fail.page = 1 THEN [reply |-> AccountFetchFailed, fetched |-> 1, transaction |-> None]
             ELSE IF scan.raised THEN [reply |-> PageFetchFailed, fetched |-> scan.fetched, transaction |-> scan.transaction]
             ELSE [reply |-> StatReply, fetched |-> scan.fetched, transaction |-> scan.transaction]
        ELSE [reply |-> StatReply, fetched |-> 0, transaction |-> None]

getxattr(path) == "ENOTSUP"
listxattr(path) == "[]"
open(path) == "0"
opendir(path) == "0"
read(path) == "EIO"
readdir(path) == "['.', '..']"
release(path) == "0"
releasedir(path) == "0"
statfs(path) == "{}"

\* the paths the handlers are called with
P_Account == Slash \o <<"A">>
P_Balance == P_Account \o Slash \o W_balance
P_Unallocated == Slash \o W_unallocated
P_Transactions == P_Account \o Slash \o W_transactions
P_Day == P_Transactions \o <<"/", "2", "0", "2", "1", "/", "0", "8", "/", "1", "3", "/">>

FsPaths ==
    {Slash,                                                \* /
     P_Balance,                                            \* /A/balance
     P_Balance \o Slash,                                   \* /A/balance/
     P_Balance \o <<"/", "0", ".", "0", "0">>,             \* /A/balance/0.00
     P_Balance \o <<"/", "0", ".", "0", "3">>,             \* /A/balance/0.03
     P_Balance \o <<"/", "$", "0", ".", "0", "5">>,        \* /A/balance/$0.05
     P_Balance \o <<"/", "1", ".", "5">>,                  \* /A/balance/1.5
     P_Balance \o <<"/", "1", ".", "2", "3", "4">>,        \* /A/balance/1.234
     P_Unallocated \o Slash,                               \* /unallocated/
     P_Unallocated \o <<"/", "0", ".", "0", "5">>,         \* /unallocated/0.05
     P_Unallocated \o <<"/", "0", ".", "0", "8">>,         \* /unallocated/0.08
     P_Transactions,                                       \* /A/transactions
     P_Transactions \o Slash,                              \* /A/transactions/
     P_Transactions \o <<"/", "2", "0", "2", "1", "/", "1", "3", "/">>,
                                                           \* /A/transactions/2021/13/
     P_Day \o <<"x", "/">>,                                \* /A/transactions/2021/08/13/x/
     P_Day \o <<"y", "/">> \o W_amount,                    \* .../13/y/amount
     P_Day \o <<"x", "/">> \o W_tags \o <<"/", "z">>,      \* .../13/x/tags/z
     P_Day \o <<"x", "/", "b", "o", "g", "u", "s">>        \* .../13/x/bogus
    }

\* the ledgers of the filesystem specification
FsLedgers ==
    {<<>>,
     <<[account |-> "A", balance |-> 5]>>,
     <<[account |-> "A", balance |-> 5], [account |-> "B", balance |-> 3]>>}

\* ------------------------------------------------------------- state
VARIABLES
    accounts,   \* MoneyPool._accounts
    start,      \* the ledger the pool started with
    bank,       \* what the remote collaborator holds
    call,       \* the last call that returned: its inputs, the ledger before it, its results
    streak,     \* the run of withdraw(0) calls the last call ends: its length, the ledger before it
    calls,      \* the number of calls made
    th          \* SpecConc: per thread, the position and the locals of its withdraw call

vars == <<accounts, start, bank, call, streak, calls, th>>

Threads == {1, 2}

NoCall ==
    [op |-> "none", path |-> <<>>, account |-> "", amount |-> 0, fail |-> NoFailure,
     pre |-> <<>>, reply |-> "", withdrawn |-> <<>>, fetched |-> 0,
     transaction |-> None]

NoStreak == [n |-> 0, pre |-> <<>>]

Idle == [pc |-> "idle", request |-> 0, amount |-> 0, i |-> 0, balance |-> 0,
         withdrawn |-> <<>>, accepted |-> FALSE]

\* ---------------------------------------------- Spec: MoneyPool, sequential
Init ==
    /\ accounts \in Ledgers
    /\ start = accounts
    /\ bank = NoBank
    /\ call = NoCall
    /\ streak = NoStreak
    /\ calls = 0
    /\ th = [t \in Threads |-> Idle]

\* pool.withdraw(amount)
Withdraw ==
    \E amount \in 0..MaxAmount :
        LET r == withdraw(accounts, amount)
        IN  /\ calls < MaxCalls
            /\ accounts' = r.accounts
            /\ call' = [NoCall EXCEPT !.op = "withdraw", !.amount = amount,
                                      !.pre = accounts, !.reply = "returned",
                                      !.withdrawn = r.withdrawn]
            /\ streak' = IF amount # 0 THEN NoStreak
                         ELSE IF streak.n = 0 THEN [n |-> 1, pre |-> accounts]
                         ELSE [streak EXCEPT !.n = @ + 1]
            /\ calls' = calls + 1
            /\ UNCHANGED <<start, bank, th>>

\* pool.deposit(account, amount)
Deposit ==
    \E n \in 1..(Min(MaxAccounts, Len(AccountNames) - 1) + 1), amount \in 0..MaxDeposit :
        LET r == deposit(accounts, AccountNames[n], amount)
        IN  /\ calls < MaxCalls
            /\ accounts' = r.accounts
            /\ call' = [NoCall EXCEPT !.op = "deposit", !.account = AccountNames[n],
                                      !.amount = amount, !.pre = accounts,
                                      !.reply = IF r.raised = "none" THEN "returned"
                                                ELSE r.raised]
            /\ streak' = NoStreak
            /\ calls' = calls + 1
            /\ UNCHANGED <<start, bank, th>>

Next == Withdraw \/ Deposit

Spec == Init /\ [][Next]_vars

\* ------------------------------------------ SpecFs: the filesystem handlers
InitFs ==
    /\ accounts \in FsLedgers
    /\ start = accounts
    /\ bank \in Banks
    /\ call = NoCall
    /\ streak = NoStreak
    /\ calls = 0
    /\ th = [t \in Threads |-> Idle]

\* A handler called with path, the bank failing as fail says, answers reply
\* after asking for `fetched` transaction pages and leaves the ledger accts.
\* No handler keeps anything from one call to the next but the ledger, so
\* each behaviour is one call made from an initial state.  FsScan is the
\* call of a handler that scans the history and ends with `transaction`.
FsScan(op, path, fail, reply, fetched, accts, transaction) ==
    /\ calls = 0
    /\ calls' = 1
    /\ accounts' = accts
    /\ call' = [NoCall EXCEPT !.op = op, !.path = path, !.fail = fail, !.pre = accounts,
                              !.reply = reply, !.fetched = fetched,
                              !.transaction = transaction]
    /\ UNCHANGED <<start, bank, streak, th>>

FsCall(op, path, fail, reply, fetched, accts) ==
    FsScan(op, path, fail, reply, fetched, accts, None)

Chmod == \E path \in FsPaths : FsCall("chmod", path, NoFailure, chmod(path), 0, accounts)

Chown == \E path \in FsPaths : FsCall("chown", path, NoFailure, chown(path), 0, accounts)

Link == \E path \in FsPaths : FsCall("link", path, NoFailure, link(path), 0, accounts)

Mkdir == \E path \in FsPaths : FsCall("mkdir", path, NoFailure, mkdir(path), 0, accounts)

Mknod == \E path \in FsPaths : FsCall("mknod", path, NoFailure, mknod(path), 0, accounts)

Readlink == \E path \in FsPaths : FsCall("readlink", path, NoFailure, readlink(path), 0, accounts)

Removexattr == \E path \in FsPaths : FsCall("removexattr", path, NoFailure, removexattr(path), 0, accounts)

Rename == \E path \in FsPaths : FsCall("rename", path, NoFailure, rename(path), 0, accounts)

Rmdir == \E path \in FsPaths : FsCall("rmdir", path, NoFailure, rmdir(path), 0, accounts)

Setxattr == \E path \in FsPaths : FsCall("setxattr", path, NoFailure, setxattr(path), 0, accounts)

Symlink == \E path \in FsPaths : FsCall("symlink", path, NoFailure, symlink(path), 0, accounts)

Truncate == \E path \in FsPaths : FsCall("truncate", path, NoFailure, truncate(path), 0, accounts)

Unlink == \E path \in FsPaths : FsCall("unlink", path, NoFailure, unlink(path), 0, accounts)

Write == \E path \in FsPaths : FsCall("write", path, NoFailure, write(path), 0, accounts)

Create == \E path \in FsPaths : FsCall("create", path, NoFailure, create(path), 0, accounts)

Utimens == \E path \in FsPaths : FsCall("utimens", path, NoFailure, utimens(path), 0, accounts)

Getxattr == \E path \in FsPaths : FsCall("getxattr", path, NoFailure, getxattr(path), 0, accounts)

Listxattr == \E path \in FsPaths : FsCall("listxattr", path, NoFailure, listxattr(path), 0, accounts)

Open == \E path \in FsPaths : FsCall("open", path, NoFailure, open(path), 0, accounts)

Opendir == \E path \in FsPaths : FsCall("opendir", path, NoFailure, opendir(path), 0, accounts)

Read == \E path \in FsPaths : FsCall("read", path, NoFailure, read(path), 0, accounts)

Readdir == \E path \in FsPaths : FsCall("readdir", path, NoFailure, readdir(path), 0, accounts)

Release == \E path \in FsPaths : FsCall("release", path, NoFailure, release(path), 0, accounts)

Releasedir == \E path \in FsPaths : FsCall("releasedir", path, NoFailure, releasedir(path), 0, accounts)

Statfs == \E path \in FsPaths : FsCall("statfs", path, NoFailure, statfs(path), 0, accounts)

Parse_path ==
    \E path \in FsPaths, failAccount \in BOOLEAN :
        LET fail == [account |-> failAccount, page |-> 0]
            r == parse_path(path, accounts, fail)
        IN  FsCall("parse_path", path, fail, r.reply, 0, r.accounts)

Getattr ==
    \E path \in FsPaths, fail \in Failures :
        LET r == getattr(path, accounts, bank, fail)
        IN  /\ fail.page <= Len(bank.pages)
            /\ FsScan("getattr", path, fail, r.reply, r.fetched, accounts, r.transaction)

NextFs ==
    \/ Chmod
    \/ Chown
    \/ Link
    \/ Mkdir
    \/ Mknod
    \/ Readlink
    \/ Removexattr
    \/ Rename
    \/ Rmdir
    \/ Setxattr
    \/ Symlink
    \/ Truncate
    \/ Unlink
    \/ Write
    \/ Create
    \/ Utimens
    \/ Getxattr
    \/ Listxattr
    \/ Open
    \/ Opendir
    \/ Read
    \/ Readdir
    \/ Release
    \/ Releasedir
    \/ Statfs
    \/ Parse_path
    \/ Getattr

SpecFs == InitFs /\ [][NextFs]_vars

\* ------------------------- SpecConc: withdraw calls on concurrent threads
\* MoneyPool.withdraw takes no lock.  A thread can be switched out between
\* any two of its reads and writes of self._accounts, so a call is four
\* kinds of step: enter, read the total (line 340), take the next item of
\* items() (line 343) and store the new balance (line 349).
InitConc ==
    /\ accounts \in Ledgers
    /\ start = accounts
    /\ bank = NoBank
    /\ call = NoCall
    /\ streak = NoStreak
    /\ calls = 0
    /\ th = [t \in Threads |-> Idle]

\* a thread enters withdraw(amount): line 337
Enter(t) ==
    \E amount \in 0..MaxAmount :
        /\ th[t].pc = "idle"
        /\ th' = [th EXCEPT ![t] = [Idle EXCEPT !.pc = "check", !.request = amount,
                                                !.amount = amount]]
        /\ UNCHANGED <<accounts, start, bank, call, streak, calls>>

\* lines 340-341
CheckFunds(t) ==
    /\ th[t].pc = "check"
    /\ th' = [th EXCEPT ![t] =
                 IF InsufficientFunds(accounts, th[t].amount)
                 THEN [@ EXCEPT !.pc = "done"]
                 ELSE [@ EXCEPT !.pc = "iter", !.i = 1, !.accepted = TRUE]]
    /\ UNCHANGED <<accounts, start, bank, call, streak, calls>>

\* lines 343-346: the next (account, balance) of items(), then the break
NextItem(t) ==
    /\ th[t].pc = "iter"
    /\ th' = [th EXCEPT ![t] =
                 IF th[t].i > Len(accounts) \/ StopGuzzling(th[t].amount)
                 THEN [@ EXCEPT !.pc = "done"]
                 ELSE [@ EXCEPT !.pc = "debit", !.balance = accounts[th[t].i].balance]]
    /\ UNCHANGED <<accounts, start, bank, call, streak, calls>>

\* lines 349-353, with the balance read by NextItem
Debit(t) ==
    /\ th[t].pc = "debit"
    /\ accounts' = [accounts EXCEPT
                       ![th[t].i].balance = NewBalance(th[t].balance, th[t].amount)]
    /\ th' = [th EXCEPT ![t] =
                 [@ EXCEPT !.pc = "iter",
                           !.i = @ + 1,
                           !.amount = Remaining(th[t].balance, th[t].amount),
                           !.withdrawn = Append(@, [account |-> accounts[th[t].i].account,
                                                    amount |-> Reported(th[t].balance,
                                                                        th[t].amount)])]]
    /\ UNCHANGED <<start, bank, call, streak, calls>>

NextConc == \E t \in Threads : Enter(t) \/ CheckFunds(t) \/ NextItem(t) \/ Debit(t)

SpecConc == InitConc /\ [][NextConc]_vars

\* ================================================================ claims

\* The withdrawal the allocator is specified to make (spec 4.3): from each
\* account in ledger order min(remaining, balance), listed when positive.
\* It states claims C3 and C14; it is no model of the code.
RECURSIVE ExpectedWithdraw(_, _, _, _)
ExpectedWithdraw(accts, i, remaining, w) ==
    IF i > Len(accts) \/ remaining = 0
    THEN [accounts |-> accts, withdrawn |-> w]
    ELSE LET debited == Min(remaining, accts[i].balance)
         IN  ExpectedWithdraw(
                 [accts EXCEPT ![i].balance = @ - debited],
                 i + 1,
                 remaining - debited,
                 IF debited > 0
                 THEN Append(w, [account |-> accts[i].account, amount |-> debited])
                 ELSE w)

\* The amount, in hundredths, that an account balance path encodes: 0 for
\* every other path.
PathAmount(path) ==
    LET match == MatchBalance(path)
    IN  IF match.ok /\ match.g1 # None /\ match.g4 # None
        THEN 100 * ParseDigits(match.g4) + ParseDigits(match.g5)
        ELSE 0

\* C1: a withdraw call either is rejected, debiting no account, or returns
\* per-account amounts whose sum is exactly the amount requested.
C1_DebitsSumToRequest ==
    call.op = "withdraw" =>
        \/ call.withdrawn = <<>> /\ accounts = call.pre
        \/ SumWithdrawn(call.withdrawn) = call.amount

\* C2: a withdraw of more than the pool's total leaves every account's
\* balance as it was and returns nothing.
C2_RejectedLeavesLedger ==
    (call.op = "withdraw" /\ total(call.pre) < call.amount) =>
        accounts = call.pre /\ call.withdrawn = <<>>

\* C2 witness: withdraw(9) on {A: 5, B: 3} was rejected.
C2_Witness ==
    /\ call.op = "withdraw"
    /\ call.pre = <<[account |-> "A", balance |-> 5], [account |-> "B", balance |-> 3]>>
    /\ call.amount = 9
    /\ accounts = call.pre

\* C3: an accepted withdraw debits min(remaining, balance) from each account
\* in ledger order and lists the accounts it debited: {A: 5, B: 3} and
\* withdraw(7) give [(A, 5), (B, 2)] and leave {A: 0, B: 1}.
C3_DebitsInLedgerOrder ==
    (call.op = "withdraw" /\ total(call.pre) >= call.amount) =>
        /\ call.withdrawn = ExpectedWithdraw(call.pre, 1, call.amount, <<>>).withdrawn
        /\ accounts = ExpectedWithdraw(call.pre, 1, call.amount, <<>>).accounts

\* C4: the check of the total and the debits of a withdraw call are one
\* critical section, so concurrent calls succeed only as some serial order
\* would let them: calls that were all accepted asked together for no more
\* than the pool held before them.
C4_NoJointOverdraw ==
    (\A t \in Threads : th[t].pc = "done" /\ th[t].accepted) =>
        th[1].request + th[2].request <= total(start)

\* C5: withdraw(0) returns an empty result and leaves the ledger unchanged,
\* and so does every run of withdraw(0) calls.
C5_WithdrawZeroChangesNothing ==
    streak.n >= 1 =>
        /\ call.withdrawn = <<>>
        /\ accounts = call.pre
        /\ accounts = streak.pre

\* C5 witness: two withdraw(0) calls in a row on a pool that holds funds in
\* two accounts.
C5_Witness ==
    /\ streak.n = 2
    /\ Len(accounts) = 2
    /\ accounts[1].balance > 0
    /\ accounts[2].balance > 0

\* C6: create on an account balance path that encodes a positive amount not
\* above the pool total is accepted and withdraws that amount from the pool.
C6_CreateAllocates ==
    (/\ call.op = "create"
     /\ PathAmount(call.path) > 0
     /\ PathAmount(call.path) <= total(call.pre)) =>
        /\ call.reply = "0"
        /\ total(accounts) = total(call.pre) - PathAmount(call.path)

\* C7: every mutating call other than the allocation create and the
\* extended-attribute calls is answered read-only-filesystem, never with
\* success.
C7_MutationsAreReadOnly ==
    (\/ call.op \in {"chmod", "chown", "link", "mkdir", "mknod", "rename", "rmdir",
                     "symlink", "truncate", "unlink", "write", "utimens"}
     \/ call.op = "create" /\ PathAmount(call.path) = 0) =>
        call.reply = "EROFS"

\* C8: an allocation request on an account balance path whose amount is
\* above the pool total is answered Unsupported and leaves the ledger.
C8_OverdrawIsUnsupported ==
    (/\ call.op = "parse_path"
     /\ ~call.fail.account
     /\ PathAmount(call.path) > total(call.pre)) =>
        /\ call.reply = "ENOTSUP"
        /\ accounts = call.pre

\* C9: a getattr on a transaction path during which the fetch of the
\* account or of a page fails is answered with the I/O error, not with
\* not-found and not with success.
C9_FetchFailureIsIOError ==
    (/\ call.op = "getattr"
     /\ ~MatchBalance(call.path).ok
     /\ MatchTransactions(call.path).ok
     /\ (call.fail.account \/ call.fail.page >= 1)) =>
        call.reply = "EIO"

\* C9 witness: in a history of three pages the fetch of page 2 failed.
C9_Witness ==
    /\ call.op = "getattr"
    /\ MatchTransactions(call.path).ok
    /\ Len(bank.pages) = 3
    /\ ~call.fail.account
    /\ call.fail.page = 2
    /\ call.fetched = 2
    /\ call.reply = "EIO"

\* C10: a point lookup stops at the first match: when the transaction the
\* path names is on page k, no page after k is asked for.
C10_StopsAtFirstMatch ==
    (/\ call.op = "getattr"
     /\ MatchTransactions(call.path).ok
     /\ MatchTransactions(call.path).payee # None
     /\ call.fail = NoFailure) =>
        \A k \in 1..Len(bank.pages) :
            FindInPage(bank.pages[k], MatchTransactions(call.path).payee) # None
                => call.fetched <= k

\* The amount a balance path embeds, read as the handlers read it: the
\* digits before the "." are dollars and the digits after it are cents
\* ("1.5" is one dollar and five cents); <<>> when the path embeds none.
EmbeddedAmount(path) ==
    LET segs == Split(path)
        text == segs[Len(segs)]
        digits == IF text # <<>> /\ text[1] = "$" THEN Tail(text) ELSE text
        n == DigitPrefixLen(digits)
    IN  IF text = <<>> THEN <<>>
        ELSE <<100 * ParseDigits(SubSeq(digits, 1, n))
               + ParseDigits(SubSeq(digits, n + 2, Len(digits)))>>

\* The balance a balance path is about: the account's at the bank, or the
\* pool's total for the unallocated path.
LiveBalance(path, accts) ==
    IF Split(path)[2] = W_unallocated /\ Len(Split(path)) = 3
    THEN total(accts)
    ELSE bank.balance

IsLeapYear(y) == y % 4 = 0 /\ (y % 100 # 0 \/ y % 400 = 0)

DaysInMonth(y, m) ==
    IF m = 2 THEN (IF IsLeapYear(y) THEN 29 ELSE 28)
    ELSE IF m \in {4, 6, 9, 11} THEN 30 ELSE 31

ValidYear(s) == Len(s) = 4 /\ AllDigits(s) /\ ParseDigits(s) >= 1
ValidMonth(s) == Len(s) = 2 /\ AllDigits(s) /\ ParseDigits(s) \in 1..12
ValidDay(y, m, s) ==
    /\ Len(s) = 2 /\ AllDigits(s)
    /\ ParseDigits(s) \in 1..DaysInMonth(ParseDigits(y), ParseDigits(m))

\* the variant of the grammar a path resolves to
GrammarVariant(path) ==
    LET segs == Split(path)
        n == Len(segs)
        date(k) == /\ (k >= 4 => ValidYear(segs[4]))
                   /\ (k >= 5 => ValidMonth(segs[5]))
                   /\ (k >= 6 => ValidDay(segs[4], segs[5], segs[6]))
                   /\ (k >= 7 => segs[7] # <<>>)
    IN  IF n < 2 \/ segs[1] # <<>> THEN "Invalid"
        ELSE IF n = 2 /\ segs[2] = <<>> THEN "Root"
        ELSE IF segs[2] = <<>> THEN "Invalid"
        ELSE IF n = 2 /\ segs[2] = W_unallocated THEN "UnallocatedBalance"
        ELSE IF n = 2 THEN "AccountRoot"
        ELSE IF n = 3 /\ segs[3] = W_balance THEN "AccountBalance"
        ELSE IF n = 3 /\ segs[3] \in {W_spending, W_saver} THEN "AccountFlag"
        ELSE IF segs[3] # W_transactions THEN "Invalid"
        ELSE IF n = 3 THEN "TransactionsRoot"
        ELSE IF n = 4 /\ date(4) THEN "TransactionsByYear"
        ELSE IF n = 5 /\ date(5) THEN "TransactionsByMonth"
        ELSE IF n = 6 /\ date(6) THEN "TransactionsByDay"
        ELSE IF n = 7 /\ date(7) THEN "TransactionEntry"
        ELSE IF n = 8 /\ date(7) /\ segs[8] \in DetailFields THEN "TransactionDetail"
        ELSE IF n = 8 /\ date(7) /\ segs[8] = W_tags THEN "TransactionTags"
        ELSE IF n = 9 /\ date(7) /\ segs[8] = W_tags /\ segs[9] # <<>> THEN "TransactionTag"
        ELSE "Invalid"

\* a path without the "/" it may end in
WithoutLastSlash(path) ==
    IF Len(path) >= 2 /\ path[Len(path)] = "/" THEN SubSeq(path, 1, Len(path) - 1) ELSE path

\* the groups the regular expressions capture from a path, in order, by
\* the first of them that matches the whole path; <<>> when none does
Captured(path) ==
    LET b == MatchBalance(path)
        f == MatchAccountType(path)
        t == MatchTransactions(path)
        given(s) == SelectSeq(s, LAMBDA g : g # None)
    IN  IF b.ok /\ b.g1 # None THEN given(<<b.g1, W_balance, b.g4, b.g5>>)
        ELSE IF b.ok THEN given(<<b.g3, b.g4, b.g5>>)
        ELSE IF f.ok THEN <<f.g1, f.g2>>
        ELSE IF t.ok THEN given(<<t.account, W_transactions, t.year, t.month, t.day,
                                  t.payee, t.field, t.tags, t.tag>>)
        ELSE <<>>

\* C12: a path that matches no branch of the path grammar (a month outside
\* 01-12, a day the month does not have, an unknown field, a segment too
\* many) is not accepted as a transaction path.  A last "/" is let pass.
C12_InvalidPathIsRejected ==
    (/\ call.op = "getattr"
     /\ GrammarVariant(call.path) = "Invalid"
     /\ GrammarVariant(WithoutLastSlash(call.path)) = "Invalid") =>
        ~MatchTransactions(call.path).ok

\* C13: a path that is valid under the path grammar is recognised, and the
\* segments captured from it are exactly the segments of the path.
C13_ValidPathIsRecognised ==
    (/\ call.op = "getattr"
     /\ GrammarVariant(call.path) \notin {"Invalid", "Root"}) =>
        Captured(call.path) = Tail(Split(call.path))

\* the balance of an account of a ledger, 0 when it has no entry
BalanceOf(accts, account) ==
    IF HasAccount(accts, account) THEN accts[IndexOf(accts, account)].balance ELSE 0

\* whether a withdraw result lists the account
Lists(w, account) == \E i \in 1..Len(w) : w[i].account = account

\* the amount a withdraw result reports for an account it lists
ReportedFor(w, account) == w[CHOOSE i \in 1..Len(w) : w[i].account = account].amount

\* The number of accounts, in ledger order, after which a request of
\* `amount` is met: the remaining request reaches zero there.
StopIndex(accts, amount) ==
    CHOOSE k \in 0..Len(accts) :
        /\ total(SubSeq(accts, 1, k)) >= amount
        /\ \A j \in 0..(k - 1) : total(SubSeq(accts, 1, j)) < amount

\* C14: in an accepted withdraw every account that comes after the point
\* where the remaining request reached zero keeps its balance and is not
\* in the result.
C14_StopsWhenRequestIsMet ==
    (call.op = "withdraw" /\ total(call.pre) >= call.amount) =>
        \A j \in (StopIndex(call.pre, call.amount) + 1)..Len(call.pre) :
            /\ accounts[j].balance = call.pre[j].balance
            /\ ~Lists(call.withdrawn, call.pre[j].account)

\* C15: every entry of the ledger is non-negative, and no withdraw call
\* makes an account's balance larger than it was before the call.
C15_BalancesNeverGrowByWithdraw ==
    /\ \A i \in 1..Len(accounts) : accounts[i].balance >= 0
    /\ call.op = "withdraw" =>
           \A i \in 1..Len(accounts) : accounts[i].balance <= call.pre[i].balance

\* C16: deposit(account, amount) returns and adds amount to the balance of
\* the account (zero if it had no entry), leaves every other account, and
\* raises the total by amount.
C16_DepositAddsToAccount ==
    call.op = "deposit" =>
        /\ call.reply = "returned"
        /\ BalanceOf(accounts, call.account) = BalanceOf(call.pre, call.account) + call.amount
        /\ \A i \in 1..Len(call.pre) :
               call.pre[i].account # call.account =>
                   BalanceOf(accounts, call.pre[i].account) = call.pre[i].balance
        /\ total(accounts) = total(call.pre) + call.amount

\* C18: in an accepted withdraw the amount reported for an account is the
\* decrease of its balance, an account that is not in the result keeps its
\* balance, and the total falls by the sum of the amounts reported.
C18_ReportedIsDebited ==
    (call.op = "withdraw" /\ total(call.pre) >= call.amount) =>
        /\ \A i \in 1..Len(call.pre) :
               IF Lists(call.withdrawn, call.pre[i].account)
               THEN ReportedFor(call.withdrawn, call.pre[i].account)
                        = call.pre[i].balance - accounts[i].balance
               ELSE accounts[i].balance = call.pre[i].balance
        /\ total(call.pre) - total(accounts) = SumWithdrawn(call.withdrawn)

\* whether the history holds the transaction
InHistory(pages, transaction_str) ==
    \E k \in 1..Len(pages) : FindInPage(pages[k], transaction_str) # None

\* C17: a point lookup for a transaction that is in the account's history,
\* with no fetch failing, finds that transaction and does not answer
\* not-found; and a lookup answers not-found only when no fetch failed and
\* the history does not hold the transaction.
C17_ExistingTransactionIsFound ==
    (/\ call.op = "getattr"
     /\ ~MatchBalance(call.path).ok
     /\ MatchTransactions(call.path).ok
     /\ MatchTransactions(call.path).payee # None) =>
        /\ (call.fail = NoFailure /\ InHistory(bank.pages, MatchTransactions(call.path).payee)) =>
               /\ call.transaction = MatchTransactions(call.path).payee
               /\ call.reply # "ENOENT"
        /\ call.reply = "ENOENT" =>
               /\ call.fail = NoFailure
               /\ ~InHistory(bank.pages, MatchTransactions(call.path).payee)

=============================================================================
